---- MODULE Spec2Model ----
(***************************************************************************)
(* Model of frontend_streamlit_interface/streamlit_app.py: the candidate   *)
(* probing HTTP glue (discover_api, fetch_agents, submit_query,            *)
(* fetch_history), the response renderer (_render_response) and the        *)
(* Streamlit script main() as it is re-run on every user action over the   *)
(* per-session state st.session_state.                                     *)
(*                                                                         *)
(* Python values are modelled as follows.  Strings are TLA+ strings.  None *)
(* is the string NoneV, a missing dict key is AbsentV and a value that is  *)
(* not a string (number, list, object) is NonStrV; none of the three is a  *)
(* string the backend or the user produces.  JSON documents are records   *)
(* with a kind field.  A backend is a sequence of replies, consumed one    *)
(* per request in request order.                                           *)
(***************************************************************************)
EXTENDS Integers, Sequences, FiniteSets, TLC

NoneV == "<None>"
AbsentV == "<absent>"
NonStrV == "<non-str>"

\* Python truthiness of a value of the model: None, a missing key read with
\* .get() and the empty string are falsy, everything else is truthy.
Truthy(v) == v \notin {NoneV, AbsentV, ""}

\* dict.get(k): a missing key reads as None.
Get(v) == IF v = AbsentV THEN NoneV ELSE v

\* Python's  a or b.
Or(a, b) == IF Truthy(a) THEN a ELSE b

InSeq(x, s) == \E i \in 1..Len(s) : s[i] = x

IsPrefix(s, t) == Len(s) <= Len(t) /\ SubSeq(t, 1, Len(s)) = s

-----------------------------------------------------------------------------
(* str.lower(), str.strip() and the substring test, computed on characters *)

UpperChars == "ABCDEFGHIJKLMNOPQRSTUVWXYZ"
LowerChars == "abcdefghijklmnopqrstuvwxyz"

UpperSet == {SubSeq(UpperChars, i, i) : i \in 1..Len(UpperChars)}

LowerOf ==
  [c \in UpperSet |->
     LET i == CHOOSE j \in 1..Len(UpperChars) : SubSeq(UpperChars, j, j) = c
     IN  SubSeq(LowerChars, i, i)]

LowerChar(c) == IF c \in UpperSet THEN LowerOf[c] ELSE c

RECURSIVE lower(_)
lower(s) ==
  IF Len(s) = 0 THEN ""
  ELSE LowerChar(SubSeq(s, 1, 1)) \o lower(SubSeq(s, 2, Len(s)))

\* Python's  sub in s  for strings.
Contains(sub, s) ==
  \E i \in 1..(Len(s) - Len(sub) + 1) : SubSeq(s, i, i + Len(sub) - 1) = sub

IsSpace(c) == c = " "

RECURSIVE lstrip(_)
lstrip(s) ==
  IF Len(s) > 0 /\ IsSpace(SubSeq(s, 1, 1)) THEN lstrip(SubSeq(s, 2, Len(s)))
  ELSE s

RECURSIVE rstrip(_)
rstrip(s) ==
  IF Len(s) > 0 /\ IsSpace(SubSeq(s, Len(s), Len(s)))
  THEN rstrip(SubSeq(s, 1, Len(s) - 1))
  ELSE s

strip(s) == rstrip(lstrip(s))

-----------------------------------------------------------------------------
(* HTTP: requests as the client builds them, replies as the backend gives  *)
(* them.  A reply either raises in requests.get/post (connection error,    *)
(* timeout) or carries a status code and a body that parses as JSON or not.*)

BaseUrl == "http://localhost:8000"

get_backend_base_url == BaseUrl

RECURSIVE lstrip_slash(_)
lstrip_slash(s) ==
  IF Len(s) > 0 /\ SubSeq(s, 1, 1) = "/" THEN lstrip_slash(SubSeq(s, 2, Len(s)))
  ELSE s

RECURSIVE rstrip_slash(_)
rstrip_slash(s) ==
  IF Len(s) > 0 /\ SubSeq(s, Len(s), Len(s)) = "/"
  THEN rstrip_slash(SubSeq(s, 1, Len(s) - 1))
  ELSE s

Url(path) == rstrip_slash(get_backend_base_url) \o "/" \o lstrip_slash(path)

\* The JSON body of a request; a GET carries none.
NoPayload == [has_query |-> FALSE, query |-> "", has_agent_id |-> FALSE, agent_id |-> ""]

_http_get(path, timeout) ==
  [method |-> "GET", url |-> Url(path), timeout |-> timeout, json |-> NoPayload]

_http_post(path, json_body, timeout) ==
  [method |-> "POST", url |-> Url(path), timeout |-> timeout, json |-> json_body]

\* resp.raise_for_status() raises for 4xx and 5xx.
RaisesForStatus(r) == r.status >= 400 /\ r.status < 600

-----------------------------------------------------------------------------
(* OpenAPI documents.  kind is the JSON type of the document; for an       *)
(* object, paths_kind is the type of its "paths" member ("absent" when it  *)
(* has none), entries lists the members of the path table in document      *)
(* order (Python dicts iterate in insertion order) and extra tells whether *)
(* the document has members other than "paths".  The item of an entry is   *)
(* "get" for a path item that declares a GET operation, "other" for a path *)
(* item that declares none, and "null" for a member that is no container   *)
(* (the test  "get" in paths[p]  raises TypeError on it).                  *)

EmptyDoc == [kind |-> "dict", extra |-> FALSE, paths_kind |-> "absent", entries |-> <<>>]

\* bool(api): an empty dict is falsy.
DocTruthy(api) == ~(api.kind = "dict" /\ ~api.extra /\ api.paths_kind = "absent")

FixedAgentCandidates == <<"/agents", "/api/agents">>

\* ScanPaths appending a discovered path after the fixed candidates.
RECURSIVE ScanPaths_Append(_, _, _)
ScanPaths_Append(entries, i, candidates) ==
  IF i > Len(entries) THEN candidates
  ELSE LET p == entries[i].p
           item == entries[i].item
       IN  IF Contains("agent", lower(p))
           THEN IF item = "null" THEN candidates
                ELSE IF item = "get" /\ ~InSeq(p, candidates)
                THEN ScanPaths_Append(entries, i + 1, candidates \o <<p>>)
                ELSE ScanPaths_Append(entries, i + 1, candidates)
           ELSE ScanPaths_Append(entries, i + 1, candidates)

\* The loop of lines 63-66 from entry i on; an exception leaves the loop with
\* the insertions done so far (line 67).
RECURSIVE ScanPaths(_, _, _)
ScanPaths(entries, i, candidates) ==
  IF i > Len(entries) THEN candidates
  ELSE LET p == entries[i].p
           item == entries[i].item
       IN  IF Contains("agent", lower(p))
           THEN IF item = "null" THEN candidates
                ELSE IF item = "get" /\ ~InSeq(p, candidates)
                THEN ScanPaths(entries, i + 1, <<p>> \o candidates)
                ELSE ScanPaths(entries, i + 1, candidates)
           ELSE ScanPaths(entries, i + 1, candidates)

\* Lines 59-68: the candidate list fetch_agents probes.
AgentCandidates(api) ==
  IF api.kind = "dict" /\ api.paths_kind = "dict"
  THEN ScanPaths(api.entries, 1, FixedAgentCandidates)
  ELSE FixedAgentCandidates

\* Lines 72-80 and 136-142: one pass through the body of the try.  data.kind
\* is the JSON type of the body; an object holds the list data.items under
\* data.key when data.sublist, a non-list under that key otherwise.  "exc" is
\* an exception (requests raised, or r.json() on a body that does not parse),
\* "ret" a return, "next" falling through to the next candidate.
ListAttempt(r, key) ==
  IF r.err THEN "exc"
  ELSE IF r.status # 200 THEN "next"
  ELSE IF ~r.parsable THEN "exc"
  ELSE IF r.data.kind = "list" THEN "ret"
  ELSE IF r.data.kind = "dict" /\ r.data.key = key /\ r.data.sublist THEN "ret"
  ELSE "next"

\* ProbeList without the except clause of lines 82-83: an exception leaves
\* the call.
RECURSIVE ProbeList_NoCatch(_, _, _, _)
ProbeList_NoCatch(n, replies, key, i) ==
  IF i > n THEN [found |-> FALSE, raised |-> FALSE, ret |-> <<>>, n |-> n]
  ELSE IF ListAttempt(replies[i], key) = "ret"
       THEN [found |-> TRUE, raised |-> FALSE, ret |-> replies[i].data.items, n |-> i]
       ELSE IF ListAttempt(replies[i], key) = "exc"
       THEN [found |-> FALSE, raised |-> TRUE, ret |-> <<>>, n |-> i]
       ELSE ProbeList_NoCatch(n, replies, key, i + 1)

\* Lines 70-84: the loop from candidate i on; lines 82-83 catch every
\* exception and go on with the next candidate.
RECURSIVE ProbeList(_, _, _, _)
ProbeList(n, replies, key, i) ==
  IF i > n THEN [found |-> FALSE, raised |-> FALSE, ret |-> <<>>, n |-> n]
  ELSE IF ListAttempt(replies[i], key) = "ret"
       THEN [found |-> TRUE, raised |-> FALSE, ret |-> replies[i].data.items, n |-> i]
       ELSE ProbeList(n, replies, key, i + 1)

fetch_agents(api, replies) ==
  LET candidates == AgentCandidates(api)
      got == ProbeList(Len(candidates), replies, "agents", 1)
  IN  [ret |-> got.ret, raised |-> got.raised,
       reqs |-> [j \in 1..got.n |-> _http_get(candidates[j], 20)]]

discover_api(replies) ==
  LET r == replies[1]
      failed == r.err \/ RaisesForStatus(r) \/ ~r.parsable
  IN  [ret |-> IF failed THEN EmptyDoc ELSE r.data,
       error_shown |-> failed,
       reqs |-> <<_http_get("openapi.json", 20)>>]

\* Lines 133 and 146-147: the paths fetch_history probes, in order.
HistoryCandidates(agent_id) ==
  <<"/history", "/api/history">> \o
  (IF Truthy(agent_id)
   THEN <<"/agents/" \o agent_id \o "/history", "/api/agents/" \o agent_id \o "/history">>
   ELSE <<>>)

fetch_history(agent_id, replies) ==
  LET candidates == HistoryCandidates(agent_id)
      got == ProbeList(Len(candidates), replies, "history", 1)
  IN  [ret |-> got.ret, raised |-> got.raised,
       reqs |-> [j \in 1..got.n |-> _http_get(candidates[j], 30)]]

\* Lines 96-98: the body of the global POSTs.
QueryPayload(agent_id, query) ==
  [has_query |-> TRUE, query |-> query,
   has_agent_id |-> Truthy(agent_id),
   agent_id |-> IF Truthy(agent_id) THEN agent_id ELSE ""]

\* Lines 115: the body of the agent-scoped POSTs.
ScopedPayload(query) ==
  [has_query |-> TRUE, query |-> query, has_agent_id |-> FALSE, agent_id |-> ""]

\* PostCandidates trying the agent-scoped paths first.
PostCandidates_ScopedFirst(agent_id, query) ==
  (IF Truthy(agent_id)
   THEN <<_http_post("/agents/" \o agent_id \o "/query", ScopedPayload(query), 120),
          _http_post("/api/agents/" \o agent_id \o "/query", ScopedPayload(query), 120)>>
   ELSE <<>>) \o
  <<_http_post("/query", QueryPayload(agent_id, query), 120),
    _http_post("/api/query", QueryPayload(agent_id, query), 120)>>

\* Lines 101-119: the POSTs submit_query may issue, in order.
PostCandidates(agent_id, query) ==
  <<_http_post("/query", QueryPayload(agent_id, query), 120),
    _http_post("/api/query", QueryPayload(agent_id, query), 120)>> \o
  (IF Truthy(agent_id)
   THEN <<_http_post("/agents/" \o agent_id \o "/query", ScopedPayload(query), 120),
          _http_post("/api/agents/" \o agent_id \o "/query", ScopedPayload(query), 120)>>
   ELSE <<>>)

\* PostAttempt accepting status 200 only.
PostAttempt_Only200(r) ==
  IF r.err THEN "exc"
  ELSE IF r.status # 200 THEN "next"
  ELSE IF ~r.parsable THEN "exc"
  ELSE "ret"

\* Lines 104-106 and 115-117: one pass through the body of the try.
PostAttempt(r) ==
  IF r.err THEN "exc"
  ELSE IF r.status \notin {200, 201} THEN "next"
  ELSE IF ~r.parsable THEN "exc"
  ELSE "ret"

\* Lines 102-119: the two loops from candidate i on; lines 107-108 and
\* 118-119 catch every exception and go on.
RECURSIVE ProbePost(_, _, _)
ProbePost(n, replies, i) ==
  IF i > n THEN [found |-> FALSE, raised |-> FALSE, n |-> n]
  ELSE IF PostAttempt(replies[i]) = "ret" THEN [found |-> TRUE, raised |-> FALSE, n |-> i]
       ELSE ProbePost(n, replies, i + 1)

-----------------------------------------------------------------------------
(* JSON values the backend answers a query with, and the renderer.         *)
(* kind is the JSON type ("none" is Python's None / JSON null).  For an    *)
(* object, f maps each text-bearing key to its value (AbsentV when the key *)
(* is missing, NonStrV when the value is no string), err is the value of   *)
(* the key "error" and refs gives the members references, citations and    *)
(* sources.  For an array, items are its elements.  For a string or a      *)
(* number, s is str(value).                                                *)

TextKeys == <<"answer", "response", "output", "result", "content", "text">>

RefKeys == <<"references", "citations", "sources">>

NoRef == [k |-> "absent", es |-> <<>>]

NoRefs == [r \in {RefKeys[i] : i \in 1..Len(RefKeys)} |-> NoRef]

NoText == [k \in {TextKeys[i] : i \in 1..Len(TextKeys)} |-> AbsentV]

NoneResp == [kind |-> "none", f |-> NoText, err |-> AbsentV, refs |-> NoRefs,
             items |-> <<>>, s |-> ""]

DictResp(f, err, refs) == [NoneResp EXCEPT !.kind = "dict", !.f = f, !.err = err, !.refs = refs]

ListResp(items) == [NoneResp EXCEPT !.kind = "list", !.items = items]

StrResp(s) == [NoneResp EXCEPT !.kind = "str", !.s = s]

NumResp(s) == [NoneResp EXCEPT !.kind = "num", !.s = s]

\* Line 121.
ErrorPayload ==
  DictResp(NoText, "Unable to submit query to backend. Please verify API endpoints.", NoRefs)

submit_query(agent_id, query, replies) ==
  LET candidates == PostCandidates(agent_id, query)
      got == ProbePost(Len(candidates), replies, 1)
  IN  [ret |-> IF got.found THEN replies[got.n].data ELSE ErrorPayload,
       raised |-> got.raised,
       reqs |-> SubSeq(candidates, 1, got.n)]

\* What the page shows: one event per Streamlit call that displays content.
Event(op, text, obj) == [op |-> op, text |-> text, obj |-> obj]

\* FirstText taking the first key that is present, string or not.
RECURSIVE FirstText_AnyValue(_, _)
FirstText_AnyValue(resp, i) ==
  IF i > Len(TextKeys) THEN NoneV
  ELSE LET v == resp.f[TextKeys[i]]
       IN  IF v # AbsentV THEN v ELSE FirstText_AnyValue(resp, i + 1)

\* Lines 367-371: the first key of TextKeys, from i on, whose value is a
\* string; None when there is none.
RECURSIVE FirstText(_, _)
FirstText(resp, i) ==
  IF i > Len(TextKeys) THEN NoneV
  ELSE LET v == resp.f[TextKeys[i]]
       IN  IF v \notin {AbsentV, NonStrV} THEN v ELSE FirstText(resp, i + 1)

RefTruthy(rv) == rv.k = "scalar" \/ (rv.k = "list" /\ rv.es # <<>>)

\* Line 377:  resp.get("references") or resp.get("citations") or resp.get("sources").
SelectRefs(resp) ==
  IF RefTruthy(resp.refs["references"]) THEN resp.refs["references"]
  ELSE IF RefTruthy(resp.refs["citations"]) THEN resp.refs["citations"]
  ELSE resp.refs["sources"]

\* json.dumps / str of a reference entry.
DumpRef(r) ==
  IF r.isdict
  THEN "{title: " \o r.title \o ", id: " \o r.id \o ", url: " \o r.url \o "}"
  ELSE r.s

\* Lines 381-389.
RenderRef(r) ==
  IF r.isdict
  THEN LET label == Or(Get(r.title), Or(Get(r.id), "Source"))
       IN  IF Truthy(r.url)
           THEN Event("markdown", "- [" \o label \o "](" \o r.url \o ")", NoneResp)
           ELSE Event("markdown", "- " \o DumpRef(r), NoneResp)
  ELSE Event("markdown", "- " \o DumpRef(r), NoneResp)

\* Lines 372-375.
RenderText(text) ==
  IF Truthy(text) THEN <<Event("card", text, NoneResp)>> ELSE <<>>

RECURSIVE _render_response(_)
RECURSIVE RenderItems(_, _)

\* Lines 394-396, from element i on.
RenderItems(items, i) ==
  IF i > Len(items) THEN <<>>
  ELSE <<Event("markdown", "**Item " \o ToString(i) \o "**", NoneResp)>>
       \o _render_response(items[i]) \o RenderItems(items, i + 1)

_render_response(resp) ==
  IF resp.kind = "none" THEN <<Event("warning", "Empty response.", NoneResp)>>
  ELSE IF resp.kind = "dict"
  THEN LET refs == SelectRefs(resp)
       IN  RenderText(FirstText(resp, 1))
           \o (IF refs.k = "list" /\ refs.es # <<>>
               THEN <<Event("markdown", "##### References", NoneResp)>>
                    \o [j \in 1..Len(refs.es) |-> RenderRef(refs.es[j])]
               ELSE <<>>)
           \o <<Event("raw_json", "", resp)>>
  ELSE IF resp.kind = "list" THEN RenderItems(resp.items, 1)
  ELSE <<Event("write", resp.s, NoneResp)>>

-----------------------------------------------------------------------------
(* The functions applied to bounded inputs: SpecFn.                        *)
(* call records the latest call: the function, its arguments, the replies  *)
(* the backend gave to the requests it issued (served), and its outcome.   *)

VARIABLES call,
          api_discovery, agents, selected_agent_id, history,
          widgets, run

vars == <<call, api_discovery, agents, selected_agent_id, history, widgets, run>>

session_vars == <<api_discovery, agents, selected_agent_id, history, widgets, run>>

\* Bound on the number of members of an OpenAPI path table.
MaxPaths == 2

NoData == [kind |-> "scalar", key |-> AbsentV, sublist |-> FALSE, items |-> <<>>]

GetReplyKinds ==
  {"raise", "s404", "s201", "unparsable", "nonlist", "otherkey", "list", "sub"}

\* The i-th reply of a backend to a list call whose sub-list is named key.
GetReply(kind, key, i) ==
  LET payload == <<kind \o "@" \o ToString(i)>>
      list == [kind |-> "list", key |-> AbsentV, sublist |-> FALSE, items |-> payload]
  IN  CASE kind = "raise" -> [err |-> TRUE, status |-> 0, parsable |-> FALSE, data |-> NoData]
        [] kind = "s404" -> [err |-> FALSE, status |-> 404, parsable |-> TRUE, data |-> list]
        [] kind = "s201" -> [err |-> FALSE, status |-> 201, parsable |-> TRUE, data |-> list]
        [] kind = "unparsable" ->
             [err |-> FALSE, status |-> 200, parsable |-> FALSE, data |-> NoData]
        [] kind = "nonlist" ->
             [err |-> FALSE, status |-> 200, parsable |-> TRUE,
              data |-> [kind |-> "dict", key |-> key, sublist |-> FALSE, items |-> <<>>]]
        [] kind = "otherkey" ->
             [err |-> FALSE, status |-> 200, parsable |-> TRUE,
              data |-> [kind |-> "dict", key |-> "items", sublist |-> TRUE, items |-> payload]]
        [] kind = "list" -> [err |-> FALSE, status |-> 200, parsable |-> TRUE, data |-> list]
        [] kind = "sub" ->
             [err |-> FALSE, status |-> 200, parsable |-> TRUE,
              data |-> [kind |-> "dict", key |-> key, sublist |-> TRUE, items |-> payload]]

GetReplies(n, key) ==
  {[i \in 1..n |-> GetReply(kinds[i], key, i)] : kinds \in [1..n -> GetReplyKinds]}

\* Members a path table is drawn from: each path with the items tried for it.
PathEntries ==
  {[p |-> "/agents", item |-> "get"],
   [p |-> "/api/agents", item |-> "get"],
   [p |-> "/v1/Agents", item |-> "get"],
   [p |-> "/v1/Agents", item |-> "other"],
   [p |-> "/agentx/list", item |-> "get"],
   [p |-> "/agentx/list", item |-> "null"],
   [p |-> "/users", item |-> "null"]}

\* Path tables: sequences of at most MaxPaths members with distinct paths.
PathTables ==
  UNION {{t \in [1..n -> PathEntries] : \A i, j \in 1..n : i # j => t[i].p # t[j].p}
         : n \in 0..MaxPaths}

Docs ==
  {[kind |-> "dict", extra |-> TRUE, paths_kind |-> "dict", entries |-> t] : t \in PathTables}
  \cup {EmptyDoc,
        [kind |-> "dict", extra |-> TRUE, paths_kind |-> "list", entries |-> <<>>],
        [kind |-> "list", extra |-> FALSE, paths_kind |-> "absent", entries |-> <<>>]}

AgentIds == {NoneV, "", "a1"}

Queries == {"q1", "q 2"}

NoCall ==
  [fn |-> "none", api |-> EmptyDoc, agent_id |-> NoneV, query |-> "", resp |-> NoneResp,
   served |-> <<>>, reqs |-> <<>>, raised |-> FALSE,
   ret_list |-> <<>>, ret_json |-> NoneResp, out |-> <<>>]

CallFetchAgents ==
  /\ call.fn = "none"
  /\ \E api \in Docs :
       \E replies \in GetReplies(Len(AgentCandidates(api)), "agents") :
         LET got == fetch_agents(api, replies)
         IN  call' = [NoCall EXCEPT !.fn = "fetch_agents", !.api = api,
                                    !.served = SubSeq(replies, 1, Len(got.reqs)),
                                    !.reqs = got.reqs, !.raised = got.raised,
                                    !.ret_list = got.ret]
  /\ UNCHANGED session_vars

CallFetchHistory ==
  /\ call.fn = "none"
  /\ \E agent_id \in AgentIds :
       \E replies \in GetReplies(Len(HistoryCandidates(agent_id)), "history") :
         LET got == fetch_history(agent_id, replies)
         IN  call' = [NoCall EXCEPT !.fn = "fetch_history", !.agent_id = agent_id,
                                    !.served = SubSeq(replies, 1, Len(got.reqs)),
                                    !.reqs = got.reqs, !.raised = got.raised,
                                    !.ret_list = got.ret]
  /\ UNCHANGED session_vars

PostReplyKinds == {"raise", "s404", "s500", "unparsable", "ok200", "ok201", "num200"}

TextSet == {TextKeys[i] : i \in 1..Len(TextKeys)}

\* The i-th reply of a backend to a POST.
PostReply(kind, i) ==
  LET answer == DictResp([NoText EXCEPT !["answer"] = kind \o "@" \o ToString(i)],
                         AbsentV, NoRefs)
  IN  CASE kind = "raise" ->
             [err |-> TRUE, status |-> 0, parsable |-> FALSE, data |-> NoneResp]
        [] kind = "s404" ->
             [err |-> FALSE, status |-> 404, parsable |-> TRUE, data |-> answer]
        [] kind = "s500" ->
             [err |-> FALSE, status |-> 500, parsable |-> FALSE, data |-> NoneResp]
        [] kind = "unparsable" ->
             [err |-> FALSE, status |-> 200, parsable |-> FALSE, data |-> NoneResp]
        [] kind = "ok200" ->
             [err |-> FALSE, status |-> 200, parsable |-> TRUE, data |-> answer]
        [] kind = "ok201" ->
             [err |-> FALSE, status |-> 201, parsable |-> TRUE, data |-> answer]
        [] kind = "num200" ->
             [err |-> FALSE, status |-> 200, parsable |-> TRUE, data |-> NumResp(ToString(i))]

PostReplies(n) ==
  {[i \in 1..n |-> PostReply(kinds[i], i)] : kinds \in [1..n -> PostReplyKinds]}

CallSubmitQuery ==
  /\ call.fn = "none"
  /\ \E agent_id \in AgentIds, query \in Queries :
       \E replies \in PostReplies(Len(PostCandidates(agent_id, query))) :
         LET got == submit_query(agent_id, query, replies)
         IN  call' = [NoCall EXCEPT !.fn = "submit_query", !.agent_id = agent_id,
                                    !.query = query,
                                    !.served = SubSeq(replies, 1, Len(got.reqs)),
                                    !.reqs = got.reqs, !.raised = got.raised,
                                    !.ret_json = got.ret]
  /\ UNCHANGED session_vars

\* Values tried for a text-bearing key k: missing, not a string, the empty
\* string, a string naming the key.
TextChoice(k, c) ==
  CASE c = "absent" -> AbsentV
    [] c = "nonstr" -> NonStrV
    [] c = "empty" -> ""
    [] c = "str" -> "the " \o k

RefT == [isdict |-> TRUE, title |-> "T", id |-> AbsentV, url |-> "U", s |-> ""]

RefNoUrl == [isdict |-> TRUE, title |-> AbsentV, id |-> "r2", url |-> AbsentV, s |-> ""]

RefStr == [isdict |-> FALSE, title |-> AbsentV, id |-> AbsentV, url |-> AbsentV, s |-> "see doc"]

RefsChoices ==
  {NoRefs,
   [NoRefs EXCEPT !["sources"] = [k |-> "list", es |-> <<RefT>>]],
   [NoRefs EXCEPT !["references"] = [k |-> "list", es |-> <<>>],
                  !["citations"] = [k |-> "list", es |-> <<RefNoUrl, RefStr>>]],
   [NoRefs EXCEPT !["references"] = [k |-> "scalar", es |-> <<>>],
                  !["sources"] = [k |-> "list", es |-> <<RefT>>]]}

DictInputs ==
  {DictResp([k \in TextSet |-> TextChoice(k, c[k])], AbsentV, refs) :
     c \in [TextSet -> {"absent", "nonstr", "empty", "str"}], refs \in RefsChoices}

\* The example of the specification, [1, "two", {"content": "three"}], and
\* the other shapes.
OtherInputs ==
  {NoneResp, NumResp("1"), StrResp("two"), ListResp(<<>>),
   ListResp(<<NumResp("1"), StrResp("two"),
              DictResp([NoText EXCEPT !["content"] = "three"], AbsentV, NoRefs)>>),
   ListResp(<<NoneResp, ListResp(<<StrResp("deep")>>)>>)}

CallRender ==
  /\ call.fn = "none"
  /\ \E resp \in DictInputs \cup OtherInputs :
       call' = [NoCall EXCEPT !.fn = "_render_response", !.resp = resp,
                              !.out = _render_response(resp)]
  /\ UNCHANGED session_vars

-----------------------------------------------------------------------------
(* The session: st.session_state, the widgets the browser shows, and the   *)
(* latest run of the script.  Streamlit runs main() from the top on every  *)
(* user action; the action's widget reads True (a button) or the new value *)
(* (the selectbox, the form) in that run only.  A widget can be used only  *)
(* if the previous run got as far as creating it.  An exception no handler *)
(* catches ends the run; session_state keeps what the run assigned.        *)

\* Bound on the length of the interaction log: no submission beyond it.
MaxHistory == 2

UnhashV == "<list>"

NonNumV == "<non-number>"

\* Agents the backend may list.  A field is AbsentV when missing, UnhashV
\* when its value is a non-empty JSON array or object; s is str(a) for an
\* agent that is no object.
Agent(id, agent_id, name, label) ==
  [isdict |-> TRUE, id |-> id, agent_id |-> agent_id, name |-> name, label |-> label,
   s |-> ""]

Alpha1 == Agent("a1", AbsentV, "Alpha", AbsentV)

Alpha2 == Agent("a2", AbsentV, "Alpha", AbsentV)

LabelOnly == Agent(AbsentV, AbsentV, AbsentV, "Beta")

ListName == Agent("a3", AbsentV, UnhashV, AbsentV)

AgentLists == {<<Alpha1, LabelOnly>>, <<Alpha2, LabelOnly>>, <<ListName>>}

\* json.dumps(a).
DumpAgent(a) ==
  "{id: " \o a.id \o ", agent_id: " \o a.agent_id \o ", name: " \o a.name
  \o ", label: " \o a.label \o "}"

\* Lines 268-273.
AgentLabel(a) ==
  IF a.isdict THEN Or(Get(a.name), Or(Get(a.id), Or(Get(a.label), DumpAgent(a)))) ELSE a.s

AgentId(a) ==
  IF a.isdict THEN Or(Get(a.id), Or(Get(a.agent_id), Get(a.name))) ELSE a.s

\* Line 275: a label that is a list or a dict cannot be a dict key.
LabelsRaise(as) == \E i \in 1..Len(as) : AgentLabel(as[i]) = UnhashV

\* Lines 264-275: agent_names and id_by_label (a later agent with the same
\* label replaces the earlier one).
AgentNames(as) == [i \in 1..Len(as) |-> AgentLabel(as[i])]

IdByLabel(as, label) ==
  LET last == CHOOSE i \in 1..Len(as) :
                /\ AgentLabel(as[i]) = label
                /\ \A j \in (i + 1)..Len(as) : AgentLabel(as[j]) # label
  IN  AgentId(as[last])

\* Entries of the interaction log.  A field is AbsentV when missing; query
\* is NonStrV when it is no string; timestamp and latency are "num" for a
\* number and NonNumV for a value that is none.
Interaction(agent_id, query, response) ==
  [isdict |-> TRUE, agent_id |-> agent_id, query |-> query, response |-> response,
   timestamp |-> "num", latency |-> "num"]

EmptyDict == DictResp(NoText, AbsentV, NoRefs)

Answer == DictResp([NoText EXCEPT !["answer"] = "hello"], AbsentV, NoRefs)

\* Histories the backend may return.
BackendHistories ==
  {<<Interaction("a1", "earlier question", Answer)>>,
   <<[isdict |-> FALSE, agent_id |-> AbsentV, query |-> AbsentV, response |-> EmptyDict,
      timestamp |-> AbsentV, latency |-> AbsentV]>>,
   <<[Interaction("a1", "earlier question", Answer) EXCEPT !.timestamp = NonNumV]>>}

\* Line 294:  item.get('query')[:40]  on the last ten entries.
SidebarItemRaises(item) == ~item.isdict \/ item.query \in {AbsentV, NonStrV}

LastN(s, n) == IF Len(s) <= n THEN s ELSE SubSeq(s, Len(s) - n + 1, Len(s))

SidebarHistoryRaises(h) ==
  \E i \in 1..Len(LastN(h, 10)) : SidebarItemRaises(LastN(h, 10)[i])

\* Lines 351-355 on the last five entries: item.get on an entry that is no
\* dict, time.localtime of a value that is no number,  :.2f  of one.
MainItemRaises(item) ==
  ~item.isdict \/ item.timestamp = NonNumV \/ item.latency = NonNumV

MainHistoryRaises(h) ==
  \E i \in 1..Len(LastN(h, 5)) : MainItemRaises(LastN(h, 5)[i])

\* Lines 337-338:  "error" in resp  raises on a number and on None; on a
\* string or a list that holds "error", resp.get raises.
ErrorTestRaises(resp) ==
  \/ resp.kind \in {"num", "none"}
  \/ resp.kind = "str" /\ Contains("error", resp.s)
  \/ resp.kind = "list" /\ \E i \in 1..Len(resp.items) : resp.items[i] = StrResp("error")

\* Lines 239-247, before the first run of the script.
InitSession ==
  /\ api_discovery = EmptyDoc
  /\ agents = <<>>
  /\ selected_agent_id = NoneV
  /\ history = <<>>
  /\ widgets = [refresh |-> FALSE, options |-> <<>>, index |-> 0, load |-> FALSE,
                form |-> FALSE]
  /\ run = [trigger |-> "start", query |-> "", crashed |-> FALSE, submit_calls |-> 0,
            posts |-> <<>>]

\* What the backend may do during one run of the script: one reply sequence
\* per call the run makes.  A backend here answers every candidate of a call
\* alike.
Raise == [err |-> TRUE, status |-> 0, parsable |-> FALSE, data |-> NoData]

ListReply(items) ==
  [err |-> FALSE, status |-> 200, parsable |-> TRUE,
   data |-> [kind |-> "list", key |-> AbsentV, sublist |-> FALSE, items |-> items]]

TableDoc ==
  [kind |-> "dict", extra |-> TRUE, paths_kind |-> "dict",
   entries |-> <<[p |-> "/v1/Agents", item |-> "get"]>>]

DiscoverBackends ==
  {<<Raise>>, <<[err |-> FALSE, status |-> 200, parsable |-> TRUE, data |-> TableDoc]>>}

AgentBackends ==
  {[i \in 1..4 |-> r] : r \in {Raise} \cup {ListReply(l) : l \in AgentLists}}

HistoryBackends ==
  {[i \in 1..4 |-> r] : r \in {Raise} \cup {ListReply(h) : h \in BackendHistories}}

PostBackends ==
  {[i \in 1..4 |-> PostReply(k, i)] : k \in {"raise", "ok200", "num200"}}

Unused == {<<>>}

Widgets(options, index, load, form) ==
  [refresh |-> TRUE, options |-> options, index |-> index, load |-> load, form |-> form]

Run(trigger, query, crashed, got) ==
  [trigger |-> trigger, query |-> query, crashed |-> crashed,
   submit_calls |-> IF got = <<>> THEN 0 ELSE 1,
   posts |-> IF got = <<>> THEN <<>> ELSE got[1].reqs]

\* Lines 299-356, reached with the sidebar drawn: the form, the submission
\* and the recent interactions.  sel is selected_agent_id and h the log as
\* the sidebar left them.
_main_panel(trigger, query, sel, h, options, index) ==
  LET submits == trigger = "submit" /\ strip(query) # ""
  IN  \E pb \in IF submits THEN PostBackends ELSE Unused :
        LET got == IF submits THEN <<submit_query(sel, strip(query), pb)>> ELSE <<>>
            h2 == IF submits
                  THEN Append(h, Interaction(sel, strip(query), got[1].ret))
                  ELSE h
            crashed == \/ submits /\ ErrorTestRaises(got[1].ret)
                       \/ MainHistoryRaises(h2)
        IN  /\ history' = h2
            /\ widgets' = Widgets(options, index, TRUE, TRUE)
            /\ run' = Run(trigger, query, crashed, got)

\* Lines 262-296: the agent selection, Load History and the history list of
\* the sidebar, then the main panel.  as is st.session_state.agents as the
\* first part of the run left it.
_sidebar_ui(trigger, query, pick, as) ==
  IF LabelsRaise(as)
  THEN /\ UNCHANGED <<selected_agent_id, history>>
       /\ widgets' = Widgets(<<>>, 0, FALSE, FALSE)
       /\ run' = Run(trigger, query, TRUE, <<>>)
  ELSE LET names == AgentNames(as)
           options == IF names = <<>> THEN <<>> ELSE <<"(None)">> \o names
           \* Line 278: the selectbox keeps its value from run to run while
           \* its label and options are the same; a selectbox with other
           \* options is a new widget and starts at index 0.
           index == IF options = <<>> \/ options # widgets.options THEN 0
                    ELSE IF trigger = "select" THEN pick
                    ELSE widgets.index
           sel == IF options = <<>> THEN selected_agent_id
                  ELSE IF options[index + 1] # "(None)"
                  THEN IdByLabel(as, options[index + 1])
                  ELSE NoneV
       IN  /\ selected_agent_id' = sel
           /\ \E hb \in IF trigger = "load" THEN HistoryBackends ELSE Unused :
                LET h == IF trigger = "load" THEN fetch_history(sel, hb).ret ELSE history
                IN  IF SidebarHistoryRaises(h)
                    THEN /\ history' = h
                         /\ widgets' = Widgets(options, index, TRUE, FALSE)
                         /\ run' = Run(trigger, query, TRUE, <<>>)
                    ELSE _main_panel(trigger, query, sel, h, options, index)

\* Lines 406-424 with lines 257-260: one run of the script.  trigger is the
\* user action that caused it, query the text of the form on a submission,
\* pick the index chosen in the selectbox on a selection.
main(trigger, query, pick) ==
  LET discovers == ~DocTruthy(api_discovery)
  IN  \E d1 \in IF discovers THEN DiscoverBackends ELSE Unused :
        LET api1 == IF discovers THEN discover_api(d1).ret ELSE api_discovery
            lists == agents = <<>>
        IN  \E a1 \in IF lists THEN AgentBackends ELSE Unused :
              LET agents1 == IF lists THEN fetch_agents(api1, a1).ret ELSE agents
                  refreshes == trigger = "refresh"
              IN  \E d2 \in IF refreshes THEN DiscoverBackends ELSE Unused :
                    LET api2 == IF refreshes THEN discover_api(d2).ret ELSE api1
                    IN  \E a2 \in IF refreshes THEN AgentBackends ELSE Unused :
                          LET agents2 == IF refreshes THEN fetch_agents(api2, a2).ret
                                         ELSE agents1
                          IN  /\ api_discovery' = api2
                              /\ agents' = agents2
                              /\ _sidebar_ui(trigger, query, pick, agents2)

\* The texts a user may submit.
FormTexts == {"", "  ", " hi "}

\* The page is loaded, or re-run without a widget being used.
PageRun == main("none", "", 0) /\ UNCHANGED call

ClickRefresh == widgets.refresh /\ main("refresh", "", 0) /\ UNCHANGED call

SelectAgent ==
  /\ widgets.options # <<>>
  /\ \E pick \in 0..(Len(widgets.options) - 1) :
       pick # widgets.index /\ main("select", "", pick)
  /\ UNCHANGED call

ClickLoadHistory == widgets.load /\ main("load", "", 0) /\ UNCHANGED call

SubmitForm ==
  /\ widgets.form
  /\ Len(history) < MaxHistory
  /\ \E query \in FormTexts : main("submit", query, 0)
  /\ UNCHANGED call

Init == call = NoCall /\ InitSession

Next == PageRun \/ ClickRefresh \/ SelectAgent \/ ClickLoadHistory \/ SubmitForm

Spec == Init /\ [][Next]_vars

InitFn == call = NoCall /\ InitSession

NextFn == CallFetchAgents \/ CallFetchHistory \/ CallSubmitQuery \/ CallRender

SpecFn == InitFn /\ [][NextFn]_vars

-----------------------------------------------------------------------------
(* Properties of the probing functions and of the renderer (SpecFn).       *)

\* A well-formed success response to a list call, as the specification
\* words it: status 200, a body that parses as JSON and is a list or an
\* object holding a list under the named key.
WellFormedList(r, key) ==
  /\ ~r.err /\ r.status = 200 /\ r.parsable
  /\ r.data.kind = "list" \/ (r.data.kind = "dict" /\ r.data.key = key /\ r.data.sublist)

\* A well-formed success response to a submission: status 200 or 201 and a
\* body that parses as JSON.
WellFormedPost(r) == ~r.err /\ (r.status = 200 \/ r.status = 201) /\ r.parsable

ListKey == IF call.fn = "fetch_agents" THEN "agents" ELSE "history"

IsListCall == call.fn \in {"fetch_agents", "fetch_history"}

Succeeds(k) ==
  IF IsListCall THEN WellFormedList(call.served[k], ListKey)
  ELSE WellFormedPost(call.served[k])

FirstSuccessAt(n) ==
  /\ n \in 1..Len(call.served)
  /\ Succeeds(n)
  /\ \A k \in 1..(n - 1) : ~Succeeds(k)

IsProbeCall == call.fn \in {"fetch_agents", "fetch_history", "submit_query"}

\* C4: first success wins.  In fetch_agents, fetch_history and submit_query,
\* when the N-th candidate tried answers with a well-formed success response
\* and every earlier one fails, the call returns the payload of the N-th
\* response and requests no later candidate.
C4_FirstSuccessWins ==
  IsProbeCall =>
    \A n \in 1..Len(call.served) :
      FirstSuccessAt(n) =>
        /\ Len(call.reqs) = n
        /\ IsListCall => call.ret_list = call.served[n].data.items
        /\ call.fn = "submit_query" => call.ret_json = call.served[n].data

C4_Witness ==
  /\ call.fn = "fetch_history"
  /\ FirstSuccessAt(4)
  /\ call.served[4].data.kind = "dict"
  /\ call.ret_list = <<"sub@4">>

\* C5: uniform failure.  When no candidate succeeds, fetch_agents and
\* fetch_history return the empty list and submit_query returns an object
\* with the key "error"; none of the three raises.
C5_UniformFailure ==
  IsProbeCall =>
    /\ ~call.raised
    /\ (\A k \in 1..Len(call.served) : ~Succeeds(k)) =>
         /\ IsListCall => call.ret_list = <<>>
         /\ call.fn = "submit_query" =>
              call.ret_json.kind = "dict" /\ call.ret_json.err # AbsentV

C5_Witness ==
  /\ call.fn = "submit_query"
  /\ Len(call.served) = 4
  /\ call.served[1].err
  /\ call.served[3].status = 200 /\ ~call.served[3].parsable
  /\ \A k \in 1..4 : ~Succeeds(k)
  /\ call.ret_json.err # AbsentV

\* The POSTs the specification lists for a submission with agent id a and
\* query q: {base}/query, {base}/api/query, {base}/agents/{id}/query and
\* {base}/api/agents/{id}/query; the global ones with the body
\* {query, [agent_id]}, the scoped ones with {query}.
ListedPosts(a, q) ==
  LET selected == a # NoneV /\ a # ""
      global == [has_query |-> TRUE, query |-> q, has_agent_id |-> selected,
                 agent_id |-> IF selected THEN a ELSE ""]
      scoped == [has_query |-> TRUE, query |-> q, has_agent_id |-> FALSE, agent_id |-> ""]
  IN  <<[method |-> "POST", url |-> "http://localhost:8000/query", json |-> global],
        [method |-> "POST", url |-> "http://localhost:8000/api/query", json |-> global],
        [method |-> "POST", url |-> "http://localhost:8000/agents/" \o a \o "/query",
         json |-> scoped],
        [method |-> "POST", url |-> "http://localhost:8000/api/agents/" \o a \o "/query",
         json |-> scoped]>>

Sent(i) ==
  [method |-> call.reqs[i].method, url |-> call.reqs[i].url, json |-> call.reqs[i].json]

\* C9: the POSTs of one submit_query call are a prefix of /query, /api/query,
\* /agents/{id}/query, /api/agents/{id}/query, the scoped ones only with a
\* non-empty agent id, each path at most once, the global ones with the body
\* {query, agent_id} (agent_id left out without an agent) and the scoped ones
\* with {query}, and none is sent after the first 200/201 with a JSON body.
C9_PostSequence ==
  call.fn = "submit_query" =>
    /\ Len(call.reqs) <= 4
    /\ \A i \in 1..Len(call.reqs) : Sent(i) = ListedPosts(call.agent_id, call.query)[i]
    /\ Len(call.reqs) > 2 => call.agent_id \notin {NoneV, ""}
    /\ \A i, j \in 1..Len(call.reqs) : i # j => call.reqs[i].url # call.reqs[j].url
    /\ \A i \in 1..(Len(call.reqs) - 1) : ~WellFormedPost(call.served[i])

C9_Witness ==
  /\ call.fn = "submit_query"
  /\ call.agent_id = "a1"
  /\ Len(call.reqs) = 4
  /\ call.reqs[3].url = "http://localhost:8000/agents/a1/query"
  /\ ~call.reqs[3].json.has_agent_id
  /\ call.reqs[1].json.agent_id = "a1"
  /\ WellFormedPost(call.served[4])

\* The two fixed fallback requests of fetch_agents.
FallbackUrls == {"http://localhost:8000/agents", "http://localhost:8000/api/agents"}

PathUrl(p) == "http://localhost:8000" \o p

HasPathTable == call.api.kind = "dict" /\ call.api.paths_kind = "dict"

\* A member of the path table whose path contains "agent", in any case, and
\* which declares a GET operation.
AgentGetEntry(i) ==
  /\ i \in 1..Len(call.api.entries)
  /\ Contains("agent", lower(call.api.entries[i].p))
  /\ call.api.entries[i].item = "get"

\* Every request to a fallback path other than p comes after a request to p.
ProbedBeforeFallbacks(p) ==
  \A i \in 1..Len(call.reqs) :
    (call.reqs[i].url \in FallbackUrls /\ call.reqs[i].url # PathUrl(p)) =>
      \E j \in 1..(i - 1) : call.reqs[j].url = PathUrl(p)

\* C3 as stated: for every OpenAPI document whose path table holds an agent
\* path that declares GET, fetch_agents requests that path before it
\* requests /agents or /api/agents.
C3_AgentPathFirst ==
  (call.fn = "fetch_agents" /\ HasPathTable) =>
    \A i \in 1..Len(call.api.entries) :
      AgentGetEntry(i) => ProbedBeforeFallbacks(call.api.entries[i].p)

\* The scan of the path table reaches member i: no agent path before it has
\* a member that is no container.
ScanReaches(i) ==
  \A k \in 1..(i - 1) :
    ~(/\ Contains("agent", lower(call.api.entries[k].p))
      /\ call.api.entries[k].item = "null")

\* C3 amended: the same, for an agent GET path that is not itself one of the
\* two fixed fallback paths and that the scan of the table reaches; a fixed
\* fallback path the document lists keeps its place in the fixed order.
C3_DiscoveredPathFirst ==
  (call.fn = "fetch_agents" /\ HasPathTable) =>
    \A i \in 1..Len(call.api.entries) :
      (AgentGetEntry(i) /\ ScanReaches(i) /\ PathUrl(call.api.entries[i].p) \notin FallbackUrls)
        => ProbedBeforeFallbacks(call.api.entries[i].p)

C3_Witness ==
  /\ call.fn = "fetch_agents"
  /\ HasPathTable
  /\ Len(call.api.entries) = 2
  /\ AgentGetEntry(2) /\ ScanReaches(2)
  /\ call.api.entries[2].p = "/v1/Agents"
  /\ Len(call.reqs) >= 2
  /\ call.reqs[1].url = "http://localhost:8000/v1/Agents"
  /\ call.reqs[Len(call.reqs)].url \in FallbackUrls

\* The priority order of the text-bearing keys, as the specification gives it.
KeyOrder == <<"answer", "response", "output", "result", "content", "text">>

IsString(v) == v # AbsentV /\ v # NonStrV

HasStringKey == \E i \in 1..Len(KeyOrder) : IsString(call.resp.f[KeyOrder[i]])

\* The value of the first key, in priority order, whose value is a string.
FirstStringValue ==
  LET i == CHOOSE j \in 1..Len(KeyOrder) :
             /\ IsString(call.resp.f[KeyOrder[j]])
             /\ \A k \in 1..(j - 1) : ~IsString(call.resp.f[KeyOrder[k]])
  IN  call.resp.f[KeyOrder[i]]

\* The primary texts and the raw-JSON views the page shows for the call.
ShownTexts == SelectSeq(call.out, LAMBDA e : e.op = "card")

ShownRaw == SelectSeq(call.out, LAMBDA e : e.op = "raw_json")

RenderedDict == call.fn = "_render_response" /\ call.resp.kind = "dict"

\* C8 as stated: for a dict, the primary text shown is the value of the first
\* key in priority order whose value is a string, and the raw-JSON view shows
\* the whole object.
C8_PrimaryText ==
  RenderedDict =>
    /\ HasStringKey => (Len(ShownTexts) = 1 /\ ShownTexts[1].text = FirstStringValue)
    /\ Len(ShownRaw) = 1 /\ ShownRaw[1].obj = call.resp

\* C8 amended: the value of that key is shown when it is not the empty
\* string; when it is empty, or no key holds a string, no primary text is
\* shown (later keys are not consulted); the raw-JSON view always shows the
\* whole object.
C8_PrimaryTextNonEmpty ==
  RenderedDict =>
    /\ (HasStringKey /\ FirstStringValue # "") =>
         (Len(ShownTexts) = 1 /\ ShownTexts[1].text = FirstStringValue)
    /\ (~HasStringKey \/ FirstStringValue = "") => Len(ShownTexts) = 0
    /\ Len(ShownRaw) = 1 /\ ShownRaw[1].obj = call.resp

\* {"answer": 7, "response": "...", "sources": [{"title": "T", "url": "U"}]}.
C8_Witness ==
  /\ RenderedDict
  /\ call.resp.f["answer"] = NonStrV
  /\ call.resp.f["response"] = "the response"
  /\ call.resp.f["output"] = "the output"
  /\ call.resp.refs["sources"].es = <<RefT>>
  /\ ShownTexts[1].text = "the response"
  /\ \E i \in 1..Len(call.out) : call.out[i].text = "- [T](U)"
  /\ ShownRaw[1].obj = call.resp

-----------------------------------------------------------------------------
(* Properties of the session (Spec).                                       *)

\* C1: the interaction log is append-only: over every run of the script, the
\* log before the run is a prefix of the log after it.
C1_LogAppendOnly == [][IsPrefix(history, history')]_vars

\* C2: no failure is fatal: whatever the backend answers and whatever the
\* user does, no run of the script ends in an uncaught exception.
C2_NoRunCrashes == ~run.crashed

\* C6: a selected agent identity is carried until the user changes or clears
\* it: a run the selectbox did not trigger leaves selected_agent_id as it
\* was, and a submission in that run is sent for that identity and recorded
\* with it.
C6_IdentityCarried ==
  [][(selected_agent_id # NoneV /\ run'.trigger # "select") =>
       /\ selected_agent_id' = selected_agent_id
       /\ run'.submit_calls = 1 =>
            /\ \A i \in 1..Len(run'.posts) :
                 run'.posts[i].json.has_agent_id =>
                   run'.posts[i].json.agent_id = selected_agent_id
            /\ history'[Len(history')].agent_id = selected_agent_id]_vars

\* The value of the first field present among id, agent_id, name, label.
FirstPresent(a) ==
  IF a.id # AbsentV THEN a.id
  ELSE IF a.agent_id # AbsentV THEN a.agent_id
  ELSE IF a.name # AbsentV THEN a.name
  ELSE a.label

\* C7: when the user selects an agent, the identity stored in
\* selected_agent_id is the value of the first field present among id,
\* agent_id, name, label of its record.
C7_IdentityPriority ==
  (run.trigger = "select" /\ ~run.crashed /\ widgets.index > 0
   /\ agents[widgets.index].isdict)
    => selected_agent_id = FirstPresent(agents[widgets.index])

\* C10: a submission of a non-blank text calls submit_query once and appends
\* one record {agent_id, trimmed query, response, timestamp, latency} to the
\* log; a submission of a blank text sends no request and leaves the log as
\* it was.
C10_SubmissionEffect ==
  [][run'.trigger = "submit" =>
       IF run'.query \in {"", "  "}
       THEN run'.submit_calls = 0 /\ run'.posts = <<>> /\ history' = history
       ELSE /\ run'.submit_calls = 1
            /\ Len(history') = Len(history) + 1
            /\ SubSeq(history', 1, Len(history)) = history
            /\ history'[Len(history')].query = "hi"
            /\ history'[Len(history')].agent_id = selected_agent_id'
            /\ history'[Len(history')].timestamp = "num"
            /\ history'[Len(history')].latency = "num"]_vars

====
